---- MODULE Spec2Model ----
(***************************************************************************)
(* The habit ledger of kinkiku-card (src/src/index.tsx): the tables users, *)
(* user_state and days of migrations/0001_init.sql and the three           *)
(* operations ensureBaseUsers, upsertWorkout and useSkip.  Every `await`   *)
(* of a single SQL statement is one atomic step; a request is the sequence *)
(* of the statements of its function.  No transaction spans two steps.     *)
(*                                                                         *)
(* Not modelled: the columns created_at / updated_at (Date.now(), never    *)
(* read back) and users.display_name (never read by the ledger).           *)
(***************************************************************************)
EXTENDS Integers, Sequences, FiniteSets, TLC

(* ------------------------------ bounds -------------------------------- *)
\* Number of consecutive calendar days, starting at FirstDay, that requests
\* may name.
NumDays == 4

\* First calendar day of the window; the window crosses the end of February
\* of a leap year, so that addDays changes day-of-month and month.
FirstDay == <<2024, 2, 28>>

\* The concurrent request slots: each serves one HTTP request at a time.  Two
\* slots give every pairwise interleaving of the statements of two requests.
Requests == {"r1", "r2"}

(* ------------------------------- dates -------------------------------- *)
\* Days since 1970-01-01 of the civil date <<y, m, d>>: what Date.UTC(y, m-1, d)
\* computes, in whole days.
EpochDay(ymd) ==
    LET y   == IF ymd[2] <= 2 THEN ymd[1] - 1 ELSE ymd[1]
        era == y \div 400
        yoe == y - era * 400
        mp  == IF ymd[2] > 2 THEN ymd[2] - 3 ELSE ymd[2] + 9
        doy == (153 * mp + 2) \div 5 + ymd[3] - 1
        doe == yoe * 365 + yoe \div 4 - yoe \div 100 + doy
    IN  era * 146097 + doe - 719468

\* The civil date of an epoch day: getUTCFullYear / getUTCMonth + 1 / getUTCDate.
CivilDay(z0) ==
    LET z   == z0 + 719468
        era == z \div 146097
        doe == z - era * 146097
        yoe == (doe - doe \div 1460 + doe \div 36524 - doe \div 146096) \div 365
        doy == doe - (365 * yoe + yoe \div 4 - yoe \div 100)
        mp  == (5 * doy + 2) \div 153
        d   == doy - (153 * mp + 2) \div 5 + 1
        m   == IF mp < 10 THEN mp + 3 ELSE mp - 9
        y   == yoe + era * 400 + (IF m <= 2 THEN 1 ELSE 0)
    IN  <<y, m, d>>

\* Mutant: day arithmetic on the day-of-month alone, without carrying into
\* the month.
addDays_NoCarry(ymd, delta) == <<ymd[1], ymd[2], ymd[3] + delta>>

\* addDays(ymd, delta): a date string YYYY-MM-DD is modelled by its three
\* numbers (split('-').map(Number) on the way in, padStart on the way out).
addDays(ymd, delta) == CivilDay(EpochDay(ymd) + delta)

Dates == { CivilDay(EpochDay(FirstDay) + i) : i \in 0..(NumDays - 1) }

(* ------------------------------- tables ------------------------------- *)
\* The two fixed user slots.
User == {"user1", "user2"}

Status == {"workout", "skip"}

\* The users whose requests are explored.  Every statement of upsertWorkout
\* and useSkip is keyed by user_id, so the ledger of one user neither reads
\* nor writes a row of the other: requests of user2 would add an independent
\* copy of the same behaviour.  user2 still gets its rows from ensureBaseUsers.
Callers == {"user1"}

VARIABLES
    users,      \* table users: the set of ids that have a row
    state,      \* table user_state: user_id -> [skip_points, consec_workout]
    days,       \* table days: days[u][d] = statuses of the rows keyed (u, d)
    pc,         \* per request: the statement it executes next
    req,        \* per request: [op, userId, date], the call being served
    st,         \* per request: the local `st` (row read from user_state)
    calc,       \* per request: the locals `skip` and `consec` of upsertWorkout
    sched,      \* scheduling regime of the requests: "any", "seq" or "burst"
    h_pre,      \* history: what the tables held when the current call/burst began
    h_last,     \* history: the call that began most recently (sequential runs)
    h_repeat,   \* history: the current call repeats the call right before it
    h_ord,      \* history: per user, date of the latest call and whether the
                \*          dates of the calls so far never went backwards
    h_burst     \* history: the burst of concurrent same-kind requests

vars == <<users, state, days, pc, req, st, calc, sched,
          h_pre, h_last, h_repeat, h_ord, h_burst>>

NoCall  == [op |-> "none", userId |-> "user1", date |-> FirstDay]
NoSt    == [skip_points |-> 0, consec_workout |-> 0]
NoCalc  == [skip |-> 0, consec |-> 0]
NoPre   == [has |-> FALSE, sp |-> 0, c |-> 0, y |-> "none", ex |-> FALSE]
NoBurst == [kind |-> "none", userId |-> "user1", dates |-> {}, ins |-> 0, rej |-> FALSE]
NoOrd   == [called |-> FALSE, last |-> FirstDay, mono |-> TRUE]

\* The request has no call in progress: it returned, or it threw.
Ended(p) == pc[p] \in {"idle", "failed"}

\* SELECT status FROM days WHERE user_id=? AND date=?  (.first()): the status
\* of the first matching row, "none" when there is no row.  A date outside
\* the window never has a row.
SelectDay(u, d) ==
    IF d \in Dates /\ Len(days[u][d]) > 0 THEN days[u][d][1] ELSE "none"

\* Mutant: the table has no primary key, only the foreign key is enforced.
InsertAccepted_NoPK(u, d) == u \in users

\* INSERT INTO days is accepted: the primary key (user_id, date) is new and
\* the foreign key user_id references a row of users.
InsertAccepted(u, d) == u \in users /\ Len(days[u][d]) = 0

\* Mutant: the streak is never reset by a gap or a skip.
NewConsec_NoReset(row, ys) == row.consec_workout + 1

\* Mutant: the regeneration has no cap.
NewSkip_NoCap(row, consec) ==
    IF consec % 2 = 0 THEN row.skip_points + 1 ELSE row.skip_points

\* Mutant: an empty budget passes the guard (< instead of <=).
NoBudget_Strict(row) == row.skip_points < 0

\* Lines 73-78 of upsertWorkout: the new streak and skip budget.
NewConsec(row, ys) ==
    IF ys = "workout" THEN row.consec_workout + 1 ELSE 1

NewSkip(row, consec) ==
    IF consec % 2 = 0 /\ row.skip_points < 2
    THEN row.skip_points + 1 ELSE row.skip_points

\* The guard of useSkip line 87: nothing to spend.
NoBudget(row) == row.skip_points <= 0

\* UPDATE user_state SET ... WHERE user_id=?: changes the row if there is one.
UpdateState(u, sp, c) ==
    IF u \in DOMAIN state
    THEN [state EXCEPT ![u] = [skip_points |-> sp, consec_workout |-> c]]
    ELSE state

(* ------------------------------ requests ------------------------------ *)
Quiet == \A q \in Requests : Ended(q)

\* What the tables hold for (u, d) when a call begins.
Snapshot(u, d) ==
    [has |-> u \in DOMAIN state,
     sp  |-> IF u \in DOMAIN state THEN state[u].skip_points ELSE 0,
     c   |-> IF u \in DOMAIN state THEN state[u].consec_workout ELSE 0,
     y   |-> SelectDay(u, addDays(d, -1)),
     ex  |-> SelectDay(u, d) # "none"]

\* When request p may begin the call op(u, d).  "any": whenever it is free
\* (requests interleave at will).  "seq": only when no call is in progress.
\* "burst": when no call is in progress, or to join the calls in progress
\* with the same operation for the same user: a workout for the same date
\* (a double submission), a skip for a date no request of the burst named.
MayBegin(p, op, u, d) ==
    /\ Ended(p)
    /\ sched = "seq" => Quiet
    /\ sched = "burst" =>
         \/ Quiet
         \/ /\ h_burst.kind = op
            /\ h_burst.userId = u
            /\ IF op = "workout" THEN d \in h_burst.dates ELSE d \notin h_burst.dates

\* History kept when a call begins.
NoteBegin(op, u, d) ==
    /\ h_pre' = IF sched # "any" /\ Quiet THEN Snapshot(u, d) ELSE h_pre
    /\ h_last' = IF sched = "seq"
                 THEN [op |-> op, userId |-> u, date |-> d] ELSE h_last
    /\ h_repeat' = IF sched = "seq"
                   THEN h_last = [op |-> op, userId |-> u, date |-> d]
                   ELSE h_repeat
    /\ h_ord' = IF sched = "seq"
                THEN LET o  == h_ord[u]
                         ok == o.mono /\ (o.called => EpochDay(d) >= EpochDay(o.last))
                     IN  [h_ord EXCEPT ![u] =
                            [called |-> TRUE,
                             last   |-> IF ok THEN d ELSE FirstDay,
                             mono   |-> ok]]
                ELSE h_ord
    /\ h_burst' = IF sched = "burst"
                  THEN IF Quiet
                       THEN [kind |-> op, userId |-> u, dates |-> {d}, ins |-> 0, rej |-> FALSE]
                       ELSE [h_burst EXCEPT !.dates = @ \cup {d}]
                  ELSE h_burst

NoteStep == UNCHANGED <<sched, h_pre, h_last, h_repeat, h_ord, h_burst>>

\* The call of request p ends: how = "idle" (it returned) or "failed" (the
\* statement threw and the error propagated out of the handler).
End(p, how) ==
    /\ pc' = [pc EXCEPT ![p] = how]
    /\ req' = [req EXCEPT ![p] = NoCall]
    /\ st' = [st EXCEPT ![p] = NoSt]
    /\ calc' = [calc EXCEPT ![p] = NoCalc]

Goto(p, label) == pc' = [pc EXCEPT ![p] = label]

(* --------------------------- ensureBaseUsers -------------------------- *)
\* One db.batch (a single transaction) of four INSERT OR IGNORE statements.
ensureBaseUsers ==
    /\ sched # "any" => Quiet
    /\ users' = users \cup {"user1", "user2"}
    /\ state' = [u \in DOMAIN state \cup {"user1", "user2"} |->
                   IF u \in DOMAIN state THEN state[u]
                   ELSE [skip_points |-> 2, consec_workout |-> 0]]
    /\ h_last' = NoCall
    /\ UNCHANGED <<days, pc, req, st, calc, sched, h_pre, h_repeat, h_ord, h_burst>>

(* ---------------------------- upsertWorkout --------------------------- *)
\* Mutant: an "upsert" that skips only the INSERT for a recorded day and
\* still goes on to the streak update.
W_Exists_Upsert(p, u, d) ==
    /\ MayBegin(p, "workout", u, d)
    /\ NoteBegin("workout", u, d)
    /\ Goto(p, IF SelectDay(u, d) # "none" THEN "w_state" ELSE "w_insert")
    /\ req' = [req EXCEPT ![p] = [op |-> "workout", userId |-> u, date |-> d]]
    /\ UNCHANGED <<st, calc>>
    /\ UNCHANGED <<users, state, days, sched>>

\* Lines 58-60: SELECT the day; return if it is already recorded.
W_Exists(p, u, d) ==
    /\ MayBegin(p, "workout", u, d)
    /\ NoteBegin("workout", u, d)
    /\ IF SelectDay(u, d) # "none"
       THEN End(p, "idle")
       ELSE /\ Goto(p, "w_insert")
            /\ req' = [req EXCEPT ![p] = [op |-> "workout", userId |-> u, date |-> d]]
            /\ UNCHANGED <<st, calc>>
    /\ UNCHANGED <<users, state, days, sched>>

\* Mutant: INSERT OR IGNORE, a rejected INSERT is dropped silently and the
\* request carries on.
W_Insert_OrIgnore(p) ==
    /\ pc[p] = "w_insert"
    /\ LET u == req[p].userId
           d == req[p].date
       IN  days' = IF InsertAccepted(u, d)
                   THEN [days EXCEPT ![u][d] = Append(@, "workout")] ELSE days
    /\ Goto(p, "w_state")
    /\ UNCHANGED <<req, st, calc, users, state>>
    /\ NoteStep

\* Lines 62-63: INSERT the workout row; a rejected INSERT throws.
W_Insert(p) ==
    /\ pc[p] = "w_insert"
    /\ LET u == req[p].userId
           d == req[p].date
       IN  IF InsertAccepted(u, d)
           THEN /\ days' = [days EXCEPT ![u][d] = Append(@, "workout")]
                /\ Goto(p, "w_state")
                /\ UNCHANGED <<req, st, calc, h_burst>>
           ELSE /\ End(p, "failed")
                /\ h_burst' = IF sched = "burst"
                              THEN [h_burst EXCEPT !.rej = TRUE] ELSE h_burst
                /\ UNCHANGED days
    /\ UNCHANGED <<users, state, sched, h_pre, h_last, h_repeat, h_ord>>

\* Lines 65-67: SELECT the state row; return if there is none.
W_State(p) ==
    /\ pc[p] = "w_state"
    /\ LET u == req[p].userId
       IN  IF u \in DOMAIN state
           THEN /\ st' = [st EXCEPT ![p] = state[u]]
                /\ Goto(p, "w_yday")
                /\ UNCHANGED <<req, calc>>
           ELSE End(p, "idle")
    /\ UNCHANGED <<users, state, days>>
    /\ NoteStep

\* Lines 69-78: SELECT yesterday's row, then compute `consec` and `skip`.
W_Yday(p) ==
    /\ pc[p] = "w_yday"
    /\ LET ys     == SelectDay(req[p].userId, addDays(req[p].date, -1))
           consec == NewConsec(st[p], ys)
       IN  calc' = [calc EXCEPT ![p] =
                      [skip |-> NewSkip(st[p], consec), consec |-> consec]]
    /\ st' = [st EXCEPT ![p] = NoSt]
    /\ Goto(p, "w_update")
    /\ UNCHANGED <<users, state, days, req>>
    /\ NoteStep

\* Lines 80-81: UPDATE the state row.
W_Update(p) ==
    /\ pc[p] = "w_update"
    /\ state' = UpdateState(req[p].userId, calc[p].skip, calc[p].consec)
    /\ End(p, "idle")
    /\ UNCHANGED <<users, days>>
    /\ NoteStep

(* ------------------------------- useSkip ------------------------------ *)
\* Lines 85-87: SELECT the state row; return if none or no budget.
S_State(p, u, d) ==
    /\ MayBegin(p, "skip", u, d)
    /\ NoteBegin("skip", u, d)
    /\ IF u \notin DOMAIN state \/ NoBudget(state[u])
       THEN End(p, "idle")
       ELSE /\ Goto(p, "s_exists")
            /\ req' = [req EXCEPT ![p] = [op |-> "skip", userId |-> u, date |-> d]]
            /\ st' = [st EXCEPT ![p] = state[u]]
            /\ UNCHANGED calc
    /\ UNCHANGED <<users, state, days, sched>>

\* Lines 89-91: SELECT the day; return if it is already recorded.
S_Exists(p) ==
    /\ pc[p] = "s_exists"
    /\ IF SelectDay(req[p].userId, req[p].date) # "none"
       THEN End(p, "idle")
       ELSE /\ Goto(p, "s_insert")
            /\ UNCHANGED <<req, st, calc>>
    /\ UNCHANGED <<users, state, days>>
    /\ NoteStep

\* Lines 93-94: INSERT the skip row; a rejected INSERT throws.
S_Insert(p) ==
    /\ pc[p] = "s_insert"
    /\ LET u == req[p].userId
           d == req[p].date
       IN  IF InsertAccepted(u, d)
           THEN /\ days' = [days EXCEPT ![u][d] = Append(@, "skip")]
                /\ Goto(p, "s_update")
                /\ h_burst' = IF sched = "burst"
                              THEN [h_burst EXCEPT !.ins = @ + 1] ELSE h_burst
                /\ UNCHANGED <<req, st, calc>>
           ELSE /\ End(p, "failed")
                /\ h_burst' = IF sched = "burst"
                              THEN [h_burst EXCEPT !.rej = TRUE] ELSE h_burst
                /\ UNCHANGED days
    /\ UNCHANGED <<users, state, sched, h_pre, h_last, h_repeat, h_ord>>

\* Mutant: the UPDATE spends the point but leaves consec_workout alone.
S_Update_KeepStreak(p) ==
    /\ pc[p] = "s_update"
    /\ state' = UpdateState(req[p].userId, st[p].skip_points - 1,
                            IF req[p].userId \in DOMAIN state
                            THEN state[req[p].userId].consec_workout ELSE 0)
    /\ End(p, "idle")
    /\ UNCHANGED <<users, days>>
    /\ NoteStep

\* Lines 97-98: UPDATE the state row from the budget read at line 85.
S_Update(p) ==
    /\ pc[p] = "s_update"
    /\ state' = UpdateState(req[p].userId, st[p].skip_points - 1, 0)
    /\ End(p, "idle")
    /\ UNCHANGED <<users, days>>
    /\ NoteStep

(* ---------------------------- specifications -------------------------- *)
\* The database right after the migration: three empty tables.
InitTables ==
    /\ users = {}
    /\ state = << >>
    /\ days = [u \in User |-> [d \in Dates |-> << >>]]
    /\ pc = [p \in Requests |-> "idle"]
    /\ req = [p \in Requests |-> NoCall]
    /\ st = [p \in Requests |-> NoSt]
    /\ calc = [p \in Requests |-> NoCalc]
    /\ h_pre = NoPre
    /\ h_last = NoCall
    /\ h_repeat = FALSE
    /\ h_ord = [u \in User |-> NoOrd]
    /\ h_burst = NoBurst

Init == InitTables /\ sched = "any"
InitSeq == InitTables /\ sched = "seq"
InitBurst == InitTables /\ sched = "burst"

Next ==
    \/ ensureBaseUsers
    \/ \E p \in Requests, u \in Callers, d \in Dates : W_Exists(p, u, d)
    \/ \E p \in Requests : W_Insert(p)
    \/ \E p \in Requests : W_State(p)
    \/ \E p \in Requests : W_Yday(p)
    \/ \E p \in Requests : W_Update(p)
    \/ \E p \in Requests, u \in Callers, d \in Dates : S_State(p, u, d)
    \/ \E p \in Requests : S_Exists(p)
    \/ \E p \in Requests : S_Insert(p)
    \/ \E p \in Requests : S_Update(p)

\* Requests interleaved statement by statement.
Spec == Init /\ [][Next]_vars
\* One call at a time.
SpecSeq == InitSeq /\ [][Next]_vars
\* One call at a time, or a burst of concurrent same-kind calls of one user.
SpecBurst == InitBurst /\ [][Next]_vars

(* ------------------------------- claims ------------------------------- *)
\* The user and date of the call that began most recently (sequential runs).
LastUser == h_last.userId
LastDate == h_last.date

\* The streak and budget the workout rule prescribes for a call that began
\* with the tables as in `pre`.
ExpectedConsec(pre) == IF pre.y = "workout" THEN pre.c + 1 ELSE 1

ExpectedSkip(pre) ==
    IF ExpectedConsec(pre) % 2 = 0 /\ pre.sp < 2 THEN pre.sp + 1 ELSE pre.sp

\* Number of consecutive calendar days ending at d that each hold a workout
\* record of u.
RECURSIVE RealStreak(_, _)
RealStreak(u, d) ==
    IF d \in Dates /\ days[u][d] = <<"workout">>
    THEN 1 + RealStreak(u, CivilDay(EpochDay(d) - 1))
    ELSE 0

\* A sequential call of `op` has returned and nothing ran since.
Returned(op) ==
    /\ sched = "seq"
    /\ Quiet
    /\ h_last.op = op
    /\ \A p \in Requests : pc[p] = "idle"

\* C1: under any statement-level interleaving of ensure_users, record_workout
\* and record_skip, every user_state row has skip_points in 0..2.
C1_SkipPointsInRange ==
    \A u \in DOMAIN state : state[u].skip_points \in 0..2

\* C1 witness: a point was spent (a skip row exists) and won back by an even
\* streak, the budget standing at its cap.
C1_Witness ==
    /\ "user1" \in DOMAIN state
    /\ state["user1"] = [skip_points |-> 2, consec_workout |-> 2]
    /\ \E d \in Dates : SelectDay("user1", d) = "skip"

\* C2: a recorded day is never changed: once days holds a row for (U, D), every
\* later step of any request leaves exactly that one row, with its status.
C2_DayRecordImmutable ==
    [][\A u \in User, d \in Dates :
         Len(days[u][d]) > 0 =>
            /\ Len(days[u][d]) = 1
            /\ days'[u][d] = days[u][d]]_vars

\* C2 witness: a skip request passed its existence check and is about to
\* INSERT for a date that a workout row has taken in the meantime.
C2_Witness ==
    \E p \in Requests :
        /\ pc[p] = "s_insert"
        /\ days[req[p].userId][req[p].date] = <<"workout">>

\* C3: record_workout(U, D) called right after record_workout(U, D): no step
\* of the second call changes days, user_state or users.
C3_WorkoutIdempotent ==
    [][(sched' = "seq" /\ h_repeat' /\ h_last'.op = "workout") =>
         (days' = days /\ state' = state /\ users' = users)]_vars

\* C3 witness: the repeated call has returned, for a day whose eve is a
\* workout, so that a second application would have advanced the streak.
C3_Witness ==
    /\ Returned("workout")
    /\ h_repeat
    /\ SelectDay(LastUser, LastDate) = "workout"
    /\ SelectDay(LastUser, addDays(LastDate, -1)) = "workout"
    /\ state[LastUser].consec_workout = 2

\* C4: record_skip(U, D) called while U's skip_points is 0 changes neither days
\* nor user_state and ends at once, whether or not (U, D) is recorded.
C4_SkipWithoutBudgetNoOp ==
    [][(sched' = "seq" /\ h_last'.op = "skip" /\ h_pre'.has /\ h_pre'.sp = 0) =>
         (days' = days /\ state' = state /\ Quiet')]_vars

\* C4 witness: such a call has returned, for an unrecorded day, with a running
\* streak that it did not reset.
C4_Witness ==
    /\ Returned("skip")
    /\ h_pre.has /\ h_pre.sp = 0 /\ ~h_pre.ex /\ h_pre.c > 0
    /\ state[LastUser].consec_workout = h_pre.c
    /\ SelectDay(LastUser, LastDate) = "none"

\* C5: record_workout(U, D) with no row for (U, D) and a state row (sp, c):
\* afterwards (U, D) holds one workout row, consec_workout is c + 1 if the eve
\* of D is a workout and 1 otherwise, and skip_points is sp + 1 if that streak
\* is even and sp < 2, and sp otherwise.
C5_WorkoutResult ==
    (Returned("workout") /\ h_pre.has /\ ~h_pre.ex) =>
        /\ days[LastUser][LastDate] = <<"workout">>
        /\ state[LastUser] = [skip_points |-> ExpectedSkip(h_pre),
                              consec_workout |-> ExpectedConsec(h_pre)]

\* C5 witness: from (0, 1) with a workout on the eve, the result (1, 2).
C5_Witness ==
    /\ Returned("workout")
    /\ h_pre = [has |-> TRUE, sp |-> 0, c |-> 1, y |-> "workout", ex |-> FALSE]
    /\ state[LastUser] = [skip_points |-> 1, consec_workout |-> 2]

\* C6: record_skip(U, D) with skip_points = sp >= 1 and no row for (U, D):
\* afterwards (U, D) holds one skip row, skip_points = sp - 1 and
\* consec_workout = 0; no step of the call changes another day row or the
\* state row of another user.
C6_SkipResult ==
    [][/\ (sched' = "seq" /\ h_last'.op = "skip") =>
            /\ \A u \in User, d \in Dates :
                  <<u, d>> # <<h_last'.userId, h_last'.date>> =>
                      days'[u][d] = days[u][d]
            /\ \A u \in DOMAIN state :
                  u # h_last'.userId => state'[u] = state[u]
       /\ (Returned("skip")' /\ h_pre'.has /\ h_pre'.sp >= 1 /\ ~h_pre'.ex) =>
            /\ days'[h_last'.userId][h_last'.date] = <<"skip">>
            /\ state'[h_last'.userId] =
                  [skip_points |-> h_pre'.sp - 1, consec_workout |-> 0]]_vars

\* C6 witness: a skip spent the last point and reset a running streak.
C6_Witness ==
    /\ Returned("skip")
    /\ h_pre.has /\ h_pre.sp = 1 /\ h_pre.c >= 1 /\ ~h_pre.ex
    /\ state[LastUser] = [skip_points |-> 0, consec_workout |-> 0]
    /\ SelectDay(LastUser, LastDate) = "skip"

\* C7 (as claimed): a call of record_workout or record_skip for a user without
\* a state row changes neither days nor user_state and raises no error.
C7_MissingStateNoWriteNoError ==
    [][(sched' = "seq" /\ h_last'.op \in {"workout", "skip"} /\ ~h_pre'.has) =>
         /\ days' = days
         /\ state' = state
         /\ \A p \in Requests : pc'[p] # "failed"]_vars

\* C8 (as claimed): right after a record_workout(U, D) that inserted its row,
\* consec_workout is the number of consecutive days ending at D that hold a
\* workout row, whatever the order of the dates of the calls so far.
C8_StreakIsRealAnyOrder ==
    (Returned("workout") /\ h_pre.has /\ ~h_pre.ex) =>
        state[LastUser].consec_workout = RealStreak(LastUser, LastDate)

\* C8 (amended): the same, for sequential calls whose dates never went
\* backwards (each call of U names a date not earlier than U's call before).
C8_StreakIsRealInDateOrder ==
    (Returned("workout") /\ h_pre.has /\ ~h_pre.ex /\ h_ord[LastUser].mono) =>
        state[LastUser].consec_workout = RealStreak(LastUser, LastDate)

\* C8 witness: in date order, a streak of three across the end of February.
C8_Witness ==
    /\ Returned("workout")
    /\ h_pre.has /\ ~h_pre.ex /\ h_ord[LastUser].mono
    /\ LastDate = <<2024, 3, 1>>
    /\ state[LastUser].consec_workout = 3

\* C9: a burst of record_workout(U, D) requests interleaved statement by
\* statement leaves at most one row for (U, D), and once all have ended the
\* tables are as after a single record_workout(U, D).
C9_DoubleSubmitOnce ==
    /\ \A u \in User, d \in Dates : Len(days[u][d]) <= 1
    /\ (sched = "burst" /\ h_burst.kind = "workout" /\ Quiet /\ h_pre.has) =>
         LET u == h_burst.userId
             d == CHOOSE x \in h_burst.dates : TRUE
         IN  IF h_pre.ex
             THEN state[u] = [skip_points |-> h_pre.sp, consec_workout |-> h_pre.c]
             ELSE /\ days[u][d] = <<"workout">>
                  /\ state[u] = [skip_points |-> ExpectedSkip(h_pre),
                                 consec_workout |-> ExpectedConsec(h_pre)]

\* C9 witness: a burst ended in which one INSERT was rejected, for a day whose
\* eve is a workout; the streak advanced by one.
C9_Witness ==
    /\ sched = "burst" /\ h_burst.kind = "workout" /\ Quiet
    /\ h_burst.rej
    /\ h_pre.has /\ ~h_pre.ex /\ h_pre.y = "workout"
    /\ state[h_burst.userId].consec_workout = h_pre.c + 1

\* C10 (as claimed): in a burst of record_skip requests of U on distinct dates
\* that began with skip_points = n, at most n skip rows are inserted, and once
\* all have ended skip_points = n - (rows inserted).
C10_BudgetNotOverspent ==
    (sched = "burst" /\ h_burst.kind = "skip" /\ h_pre.has) =>
        /\ h_burst.ins <= h_pre.sp
        /\ Quiet => state[h_burst.userId].skip_points = h_pre.sp - h_burst.ins

====
